---- MODULE Spec2Model ----
(***************************************************************************)
(* Versioning-aware DELETE and GET of an S3-compatible object store.       *)
(*                                                                         *)
(* One bucket, one key.  The key owns a version chain kept by the metadata *)
(* layer; DELETE requests run the objectDelete pipeline of                 *)
(* lib/api/objectDelete.js (validateBucketAndObj -> getVersioningInfo ->   *)
(* deleteOperation -> final callback) and may interleave with each other,  *)
(* with PUTs and with GETs.  Strings are sequences of character codes so   *)
(* that the version-id codec is a real conversion.                         *)
(***************************************************************************)
EXTENDS Integers, Sequences, FiniteSets, TLC

\* ------------------------------------------------------------------ bounds
\* Number of versions (sequence keys) the metadata layer may ever generate.
MaxSeq == 2

\* The DELETE requests that may be in flight at the same time.
Reqs == {"r1", "r2"}

\* ----------------------------------------------------------------- strings
\* The literal 'null' (character codes of n, u, l, l).
NullStr == <<110, 117, 108, 108>>
\* JavaScript undefined / the empty string: both are falsy in the tests
\* `if (reqVersionId)` and `if (result.versionId)`.
Undefined == <<>>

RECURSIVE DecStr(_)
\* Decimal string of a sequence number: the internal version key.
DecStr(n) ==
    IF n < 10 THEN <<48 + n>>
    ELSE DecStr(n \div 10) \o <<48 + (n % 10)>>

\* One hexadecimal digit (0..15) as a lower-case character.
HexChar(h) == IF h < 10 THEN 48 + h ELSE 87 + h

\* Whether a character is a lower-case hexadecimal digit.
IsHexChar(c) == (c >= 48 /\ c <= 57) \/ (c >= 97 /\ c <= 102)

\* The value of a hexadecimal digit character.
HexVal(c) == IF c <= 57 THEN c - 48 ELSE c - 87

RECURSIVE hexEncode(_)
\* versionIdUtils.encode: every character becomes two hexadecimal digits.
hexEncode(str) ==
    IF str = <<>> THEN <<>>
    ELSE <<HexChar(Head(str) \div 16), HexChar(Head(str) % 16)>>
         \o hexEncode(Tail(str))

\* The codec's encode, as used for the x-amz-version-id header.
encode(id) == hexEncode(id)

RECURSIVE hexDecode(_)
\* Pairs of hexadecimal digits back to characters (input already validated).
hexDecode(tok) ==
    IF tok = <<>> THEN <<>>
    ELSE <<16 * HexVal(tok[1]) + HexVal(tok[2])>> \o hexDecode(Tail(Tail(tok)))

\* Whether decode accepts the token: non-empty, whole pairs of hex digits.
Decodable(tok) ==
    /\ Len(tok) > 0
    /\ Len(tok) % 2 = 0
    /\ \A i \in 1..Len(tok) : IsHexChar(tok[i])

\* The error value of a failed decode.
DecodeError == "InvalidArgument"

\* A request query: `present` is FALSE for an absent query object,
\* `hasVersionId` tells whether the versionId key is there, `versionId` is its
\* value (a string, possibly empty).
Query(present, hasVid, vid) ==
    [present |-> present, hasVersionId |-> hasVid, versionId |-> vid]

NoQuery == Query(FALSE, FALSE, Undefined)
EmptyQuery == Query(TRUE, FALSE, Undefined)
VidQuery(tok) == Query(TRUE, TRUE, tok)

\* decodeVersionId(query): undefined when no version id is given, the literal
\* 'null' verbatim, the decoded key, or the decode error.
decodeVersionId(query) ==
    IF ~query.present \/ ~query.hasVersionId \/ query.versionId = <<>>
    THEN [err |-> "none", versionId |-> Undefined]
    ELSE IF query.versionId = NullStr
    THEN [err |-> "none", versionId |-> NullStr]
    ELSE IF Decodable(query.versionId)
    THEN [err |-> "none", versionId |-> hexDecode(query.versionId)]
    ELSE [err |-> DecodeError, versionId |-> Undefined]

\* ------------------------------------------------------------ query guard
\* The customised InvalidArgument error of checkQueryVersionId.
InvalidArgumentNoVid ==
    [code |-> "InvalidArgument", statusCode |-> 400,
     description |-> "This operation does not accept a version-id."]

\* `return undefined`: no error.
NoError == [code |-> "none", statusCode |-> 200, description |-> ""]

\* Mutant: the guard tests the value's truthiness, so an empty versionId
\* passes.
checkQueryVersionId_truthy(query) ==
    IF query.present /\ query.hasVersionId /\ query.versionId # <<>>
    THEN InvalidArgumentNoVid
    ELSE NoError

\* checkQueryVersionId(query): `query && query.versionId !== undefined`.
checkQueryVersionId(query) ==
    IF query.present /\ query.hasVersionId
    THEN InvalidArgumentNoVid
    ELSE NoError

\* ---------------------------------------------------------------- state
VARIABLES
    versioning,   \* bucket versioning configuration: "none", "Enabled", "Suspended"
    origin,       \* whether the client's requests carry an Origin header
    chain,        \* the key's version chain, current version first
    nextSeq,      \* next sequence key of the metadata layer
    everIds,      \* history: ids of all versions that were ever in the chain
    req,          \* the DELETE requests: Reqs -> request record
    lastRead      \* response of the last read-only operation (GET, query guard)

vars == <<versioning, origin, chain, nextSeq, everIds, req, lastRead>>

\* ----------------------------------------------------- metadata layer
\* The absent object metadata (`!objMD`).
NoObj == [id |-> Undefined, isDeleteMarker |-> FALSE, contentLength |-> -1]

\* A version of the chain.
Version(id, isDeleteMarker, contentLength) ==
    [id |-> id, isDeleteMarker |-> isDeleteMarker, contentLength |-> contentLength]

\* Ids of the versions now in the chain.
ChainIds == {chain[i].id : i \in 1..Len(chain)}

\* The metadata lookup of a request: the version with the requested id, or the
\* current version when no id is requested; NoObj when there is none.
Lookup(versionId) ==
    IF versionId = Undefined
    THEN IF chain = <<>> THEN NoObj ELSE Head(chain)
    ELSE IF \E i \in 1..Len(chain) : chain[i].id = versionId
    THEN chain[CHOOSE i \in 1..Len(chain) : chain[i].id = versionId]
    ELSE NoObj

\* The chain without the version whose id is `id`.
RemoveVersion(id) == SelectSeq(chain, LAMBDA v : v.id # id)

\* Ids the metadata layer may give the next version it creates: the next
\* sequence key when versioning is configured; the 'null' sentinel for the
\* implicit version of an unversioned bucket and, while it names no version of
\* the chain, under Suspended.
NewIds ==
    CASE versioning = "none" -> {NullStr}
      [] versioning = "Enabled" -> {DecStr(nextSeq)}
      [] OTHER -> {DecStr(nextSeq)} \cup ({NullStr} \ ChainIds)

\* The chain after the object-creation path stored version v: a new head
\* when versioning is configured, the only object otherwise.
StoreVersion(v) ==
    IF versioning = "none" THEN <<v>> ELSE <<v>> \o chain

\* The sequence counter after an id was handed out.
SeqAfter(id) == IF id = NullStr THEN nextSeq ELSE nextSeq + 1

\* ------------------------------------------------------------- inputs
\* Content lengths of the objects a PUT stores.
ContentLengths == {3}

\* Version-id tokens a client may send: the tokens of the keys the metadata
\* layer can hand out, the 'null' literal, and a malformed one ("zz").
Tokens ==
    {encode(DecStr(n)) : n \in 1..MaxSeq} \cup {NullStr, <<122, 122>>}

\* Queries of a DELETE or GET request.
RequestQueries == {EmptyQuery} \cup {VidQuery(t) : t \in Tokens}

\* Queries handed to the query guard, the absent query and the empty
\* versionId value included.
GuardQueries == {NoQuery, VidQuery(<<>>)} \cup RequestQueries

\* Errors the collaborators may return on their own.
ValidateErrors == {"AccessDenied", "InternalError"}
StorageErrors == {"InternalError"}

\* ------------------------------------------------------------ responses
\* collectCorsHeaders(origin, method, bucketMD): header names, none without
\* an Origin header.
collectCorsHeaders(hasOrigin) ==
    IF hasOrigin THEN {"access-control-allow-origin"} ELSE {}

\* Response headers: the CORS header names, x-amz-version-id (Undefined when
\* not set) and x-amz-delete-marker (FALSE when not set).
Headers(cors, versionId, deleteMarker) ==
    [cors |-> cors, versionId |-> versionId, deleteMarker |-> deleteMarker]

\* No delete options yet.
NoOptions == [deleteData |-> FALSE, versionId |-> Undefined]

\* A request slot before objectDelete is called. `calls` lists the
\* collaborators called so far and `returned` holds the error the last of
\* them returned, for the claims; `cbCount` counts invocations of cb.
IdleReq ==
    [pc |-> "idle", public |-> FALSE, query |-> EmptyQuery,
     reqVersionId |-> Undefined, objMD |-> NoObj, delOptions |-> NoOptions,
     newDeleteMarker |-> FALSE, removeDeleteMarker |-> FALSE,
     result |-> Undefined, err |-> "none",
     resHeaders |-> Headers({}, Undefined, FALSE),
     cbCount |-> 0, metrics |-> <<>>, calls |-> <<>>, returned |-> "none"]

\* cb(err, resHeaders): the request is answered.
Respond(rec, err, resHeaders, metrics) ==
    [rec EXCEPT !.pc = "done", !.err = err, !.resHeaders = resHeaders,
                !.cbCount = @ + 1, !.metrics = @ \o metrics]

\* pushMetric(name, ...).
Metric(name, byteLength) == [name |-> name, byteLength |-> byteLength]

\* Mutant: the 'null' test is missing, so the sentinel goes through the codec.
VersionIdHeader_alwaysEncode(id) == encode(id)

\* x-amz-version-id for an internal id: 'null' literally, else encoded.
VersionIdHeader(id) == IF id = NullStr THEN id ELSE encode(id)

\* Mutant: the skip sentinel is passed to the caller like any other error.
finalCallback_leakSkip(rec, err) ==
    LET resHeaders == Headers(collectCorsHeaders(origin), Undefined, FALSE)
    IN  IF err # "none"
        THEN Respond(rec, err, resHeaders, <<>>)
        ELSE IF rec.newDeleteMarker
        THEN Respond(rec, "none",
                 IF rec.result # Undefined
                 THEN Headers(resHeaders.cors, VersionIdHeader(rec.result), TRUE)
                 ELSE resHeaders,
                 <<Metric("putObject", 0)>>)
        ELSE Respond(rec, "none",
                 IF rec.reqVersionId # Undefined
                 THEN Headers(resHeaders.cors, VersionIdHeader(rec.reqVersionId),
                              rec.removeDeleteMarker)
                 ELSE resHeaders,
                 <<Metric("deleteObject", rec.objMD.contentLength)>>)

\* Mutant: after creating a marker the callback echoes the version id of the
\* metadata snapshot instead of the id of the new marker.
finalCallback_echoSnapshot(rec, err) ==
    LET resHeaders == Headers(collectCorsHeaders(origin), Undefined, FALSE)
    IN  IF err # "none"
        THEN IF err = "skip"
             THEN Respond(rec, "none", resHeaders, <<>>)
             ELSE Respond(rec, err, resHeaders, <<>>)
        ELSE IF rec.newDeleteMarker
        THEN Respond(rec, "none",
                 IF rec.result # Undefined
                 THEN Headers(resHeaders.cors, VersionIdHeader(rec.objMD.id), TRUE)
                 ELSE resHeaders,
                 <<Metric("putObject", 0)>>)
        ELSE Respond(rec, "none",
                 IF rec.reqVersionId # Undefined
                 THEN Headers(resHeaders.cors, VersionIdHeader(rec.reqVersionId),
                              rec.removeDeleteMarker)
                 ELSE resHeaders,
                 <<Metric("deleteObject", rec.objMD.contentLength)>>)

\* Mutant: the metric is pushed before the error test, so a failed mutating
\* call is metered too.
finalCallback_metricOnError(rec, err) ==
    LET resHeaders == Headers(collectCorsHeaders(origin), Undefined, FALSE)
        metric == IF rec.newDeleteMarker
                  THEN <<Metric("putObject", 0)>>
                  ELSE <<Metric("deleteObject", rec.objMD.contentLength)>>
    IN  IF err # "none"
        THEN IF err = "skip"
             THEN Respond(rec, "none", resHeaders, <<>>)
             ELSE Respond(rec, err, resHeaders, metric)
        ELSE IF rec.newDeleteMarker
        THEN Respond(rec, "none",
                 IF rec.result # Undefined
                 THEN Headers(resHeaders.cors, VersionIdHeader(rec.result), TRUE)
                 ELSE resHeaders,
                 metric)
        ELSE Respond(rec, "none",
                 IF rec.reqVersionId # Undefined
                 THEN Headers(resHeaders.cors, VersionIdHeader(rec.reqVersionId),
                              rec.removeDeleteMarker)
                 ELSE resHeaders,
                 metric)

\* Mutant: after a marker creation only x-amz-delete-marker is set; the new
\* marker's version id is not put into the answer.
finalCallback_flagOnly(rec, err) ==
    LET resHeaders == Headers(collectCorsHeaders(origin), Undefined, FALSE)
    IN  IF err # "none"
        THEN IF err = "skip"
             THEN Respond(rec, "none", resHeaders, <<>>)
             ELSE Respond(rec, err, resHeaders, <<>>)
        ELSE IF rec.newDeleteMarker
        THEN Respond(rec, "none",
                 IF rec.result # Undefined
                 THEN Headers(resHeaders.cors, Undefined, TRUE)
                 ELSE resHeaders,
                 <<Metric("putObject", 0)>>)
        ELSE Respond(rec, "none",
                 IF rec.reqVersionId # Undefined
                 THEN Headers(resHeaders.cors, VersionIdHeader(rec.reqVersionId),
                              rec.removeDeleteMarker)
                 ELSE resHeaders,
                 <<Metric("deleteObject", rec.objMD.contentLength)>>)

\* The waterfall's final callback (err, bucketMD, objectMD, result, deleteInfo).
finalCallback(rec, err) ==
    LET resHeaders == Headers(collectCorsHeaders(origin), Undefined, FALSE)
    IN  IF err # "none"
        THEN IF err = "skip"
             THEN Respond(rec, "none", resHeaders, <<>>)
             ELSE Respond(rec, err, resHeaders, <<>>)
        ELSE IF rec.newDeleteMarker
        THEN Respond(rec, "none",
                 IF rec.result # Undefined
                 THEN Headers(resHeaders.cors, VersionIdHeader(rec.result), TRUE)
                 ELSE resHeaders,
                 <<Metric("putObject", 0)>>)
        ELSE Respond(rec, "none",
                 IF rec.reqVersionId # Undefined
                 THEN Headers(resHeaders.cors, VersionIdHeader(rec.reqVersionId),
                              rec.removeDeleteMarker)
                 ELSE resHeaders,
                 <<Metric("deleteObject", rec.objMD.contentLength)>>)

\* preprocessingVersioningDelete: the delete options for the request.
preprocessingVersioningDelete(objMD, reqVersionId) ==
    IF versioning = "none"
    THEN [deleteData |-> TRUE, versionId |-> Undefined]
    ELSE IF reqVersionId # Undefined
    THEN [deleteData |-> TRUE, versionId |-> reqVersionId]
    ELSE [deleteData |-> FALSE, versionId |-> Undefined]

\* --------------------------------------------------------------- Init
Init ==
    /\ versioning \in {"none", "Enabled", "Suspended"}
    /\ origin \in BOOLEAN
    /\ chain = <<>>
    /\ nextSeq = 1
    /\ everIds = {}
    /\ req = [r \in Reqs |-> IdleReq]
    /\ lastRead = [op |-> "none", query |-> NoQuery, code |-> "none",
                   statusCode |-> 0, description |-> "",
                   versionId |-> Undefined, contentLength |-> -1]

\* Requests between their metadata lookup and their answer.
InFlight == {r \in Reqs : req[r].pc \notin {"idle", "done"}}

\* Sequence keys not yet handed out nor reserved by a request in flight.
IdsLeft == MaxSeq - (nextSeq - 1) - Cardinality(InFlight)

\* Mutant: the version id is decoded before the requester is looked at, so
\* a public request with a malformed version id gets the decode error.
objectDelete_decodeFirst(r, public, query) ==
    /\ req[r].pc \in {"idle", "done"}
    /\ IdsLeft > 0
    /\ LET rec == [IdleReq EXCEPT !.public = public, !.query = query]
           decodedVidResult == decodeVersionId(query)
       IN  req' = [req EXCEPT ![r] =
               IF decodedVidResult.err # "none"
               THEN Respond(rec, decodedVidResult.err,
                            Headers({}, Undefined, FALSE), <<>>)
               ELSE IF public
               THEN Respond(rec, "AccessDenied", Headers({}, Undefined, FALSE), <<>>)
               ELSE [rec EXCEPT !.pc = "validateBucketAndObj",
                                !.reqVersionId = decodedVidResult.versionId]]
    /\ UNCHANGED <<versioning, origin, chain, nextSeq, everIds, lastRead>>

\* ------------------------------------------------------------- DELETE
\* objectDelete up to the waterfall: the public-user check, the version-id
\* decode, and the first stage issued.
objectDelete(r, public, query) ==
    /\ req[r].pc \in {"idle", "done"}
    /\ IdsLeft > 0
    /\ LET rec == [IdleReq EXCEPT !.public = public, !.query = query]
           decodedVidResult == decodeVersionId(query)
       IN  req' = [req EXCEPT ![r] =
               IF public
               THEN Respond(rec, "AccessDenied", Headers({}, Undefined, FALSE), <<>>)
               ELSE IF decodedVidResult.err # "none"
               THEN Respond(rec, decodedVidResult.err,
                            Headers({}, Undefined, FALSE), <<>>)
               ELSE [rec EXCEPT !.pc = "validateBucketAndObj",
                                !.reqVersionId = decodedVidResult.versionId]]
    /\ UNCHANGED <<versioning, origin, chain, nextSeq, everIds, lastRead>>

\* Mutant: the error of the metadata lookup is not tested; the stage goes on
\* with the object metadata it got, none after a failed lookup.
validateDecision_ignoreErr(rec, err, objMD) ==
    LET called == [rec EXCEPT !.calls = @ \o <<"metadataValidateBucketAndObj">>]
    IN  IF objMD = NoObj
        THEN IF versioning = "none"
             THEN finalCallback(called, "NoSuchKey")
             ELSE IF rec.reqVersionId # Undefined
             THEN finalCallback(called, "skip")
             ELSE [called EXCEPT !.pc = "getVersioningInfo", !.objMD = objMD]
        ELSE [called EXCEPT !.pc = "getVersioningInfo", !.objMD = objMD]

\* Mutant: a missing object is NoSuchKey whatever the versioning
\* configuration.
validateDecision_alwaysNoSuchKey(rec, err, objMD) ==
    LET called == [rec EXCEPT !.calls = @ \o <<"metadataValidateBucketAndObj">>]
    IN  IF err # "none"
        THEN finalCallback(called, err)
        ELSE IF objMD = NoObj
        THEN finalCallback(called, "NoSuchKey")
        ELSE [called EXCEPT !.pc = "getVersioningInfo", !.objMD = objMD]

\* Mutant: on the skip outcome the stage returns without calling next, so
\* the final callback is never reached.
validateDecision_skipWithoutNext(rec, err, objMD) ==
    LET called == [rec EXCEPT !.calls = @ \o <<"metadataValidateBucketAndObj">>]
    IN  IF err # "none"
        THEN finalCallback(called, err)
        ELSE IF objMD = NoObj
        THEN IF versioning = "none"
             THEN finalCallback(called, "NoSuchKey")
             ELSE IF rec.reqVersionId # Undefined
             THEN [called EXCEPT !.pc = "skipped"]
             ELSE [called EXCEPT !.pc = "getVersioningInfo", !.objMD = objMD]
        ELSE [called EXCEPT !.pc = "getVersioningInfo", !.objMD = objMD]

\* Mutant: the skip rule for a named version is tested before the versioning
\* configuration.
validateDecision_skipFirst(rec, err, objMD) ==
    LET called == [rec EXCEPT !.calls = @ \o <<"metadataValidateBucketAndObj">>]
    IN  IF err # "none"
        THEN finalCallback(called, err)
        ELSE IF objMD = NoObj
        THEN IF rec.reqVersionId # Undefined
             THEN finalCallback(called, "skip")
             ELSE IF versioning = "none"
             THEN finalCallback(called, "NoSuchKey")
             ELSE [called EXCEPT !.pc = "getVersioningInfo", !.objMD = objMD]
        ELSE [called EXCEPT !.pc = "getVersioningInfo", !.objMD = objMD]

\* The stage's decision once the metadata lookup returned (err, objMD).
validateDecision(rec, err, objMD) ==
    LET called == [rec EXCEPT !.calls = @ \o <<"metadataValidateBucketAndObj">>]
    IN  IF err # "none"
        THEN finalCallback(called, err)
        ELSE IF objMD = NoObj
        THEN IF versioning = "none"
             THEN finalCallback(called, "NoSuchKey")
             ELSE IF rec.reqVersionId # Undefined
             THEN finalCallback(called, "skip")
             ELSE [called EXCEPT !.pc = "getVersioningInfo", !.objMD = objMD]
        ELSE [called EXCEPT !.pc = "getVersioningInfo", !.objMD = objMD]

\* validateBucketAndObj: the metadata lookup and its callback.
validateBucketAndObj(r) ==
    /\ req[r].pc = "validateBucketAndObj"
    /\ \E err \in {"none"} \cup ValidateErrors :
          req' = [req EXCEPT ![r] =
                     validateDecision([req[r] EXCEPT !.returned = err], err,
                         IF err = "none" THEN Lookup(req[r].reqVersionId)
                         ELSE NoObj)]
    /\ UNCHANGED <<versioning, origin, chain, nextSeq, everIds, lastRead>>

\* getVersioningInfo: the delete preprocessing and its callback.
getVersioningInfo(r) ==
    /\ req[r].pc = "getVersioningInfo"
    /\ \E err \in {"none"} \cup StorageErrors :
          LET called == [req[r] EXCEPT
                            !.calls = @ \o <<"preprocessingVersioningDelete">>,
                            !.returned = err]
          IN  req' = [req EXCEPT ![r] =
                  IF err # "none"
                  THEN finalCallback(called, err)
                  ELSE [called EXCEPT
                           !.pc = "deleteOperation",
                           !.delOptions = preprocessingVersioningDelete(
                                              called.objMD, called.reqVersionId)]]
    /\ UNCHANGED <<versioning, origin, chain, nextSeq, everIds, lastRead>>

\* The version services.deleteObject removes: the one the delete options
\* name, the object of the metadata snapshot otherwise.
DeleteTarget(rec) ==
    IF rec.delOptions.versionId # Undefined
    THEN rec.delOptions.versionId
    ELSE rec.objMD.id

\* Mutant: deleteInfo.newDeleteMarker is never set, so the object-creation
\* path is not told to store a delete marker.
deleteDispatch_noMarkerFlag(rec) ==
    IF rec.delOptions.deleteData
    THEN [rec EXCEPT !.removeDeleteMarker = rec.objMD.isDeleteMarker,
                     !.calls = @ \o <<"deleteObject">>]
    ELSE [rec EXCEPT !.calls = @ \o <<"createAndStoreObject">>]

\* Mutant: the test is `if (delOptions)`, so every DELETE that reaches the
\* stage physically deletes.
deleteDispatch_ignoreDeleteData(rec) ==
    [rec EXCEPT !.delOptions.deleteData = TRUE,
                !.removeDeleteMarker = rec.objMD.isDeleteMarker,
                !.calls = @ \o <<"deleteObject">>]

\* deleteInfo and the collaborator deleteOperation chooses:
\* `delOptions && delOptions.deleteData` -> services.deleteObject, with
\* removeDeleteMarker recorded; otherwise createAndStoreObject for a marker.
deleteDispatch(rec) ==
    IF rec.delOptions.deleteData
    THEN [rec EXCEPT !.removeDeleteMarker = rec.objMD.isDeleteMarker,
                     !.calls = @ \o <<"deleteObject">>]
    ELSE [rec EXCEPT !.newDeleteMarker = TRUE,
                     !.calls = @ \o <<"createAndStoreObject">>]

\* The version createAndStoreObject stores when called with isDeleteMarker:
\* a delete marker without content.
NewDeleteMarker(id, isDeleteMarker) == Version(id, isDeleteMarker, 0)

\* Mutant: the `return` before services.deleteObject is missing, so a
\* physical delete falls through to createAndStoreObject; the answer is that
\* of the first callback.
deleteOperation_fallThrough(r) ==
    /\ req[r].pc = "deleteOperation"
    /\ LET rec == deleteDispatch(req[r])
       IN  \/ /\ rec.delOptions.deleteData
              /\ DeleteTarget(rec) \in ChainIds
              /\ chain' = RemoveVersion(DeleteTarget(rec))
              /\ req' = [req EXCEPT ![r] = finalCallback(rec, "none")]
              /\ UNCHANGED <<nextSeq, everIds>>
           \/ /\ ~rec.delOptions.deleteData
              /\ \E id \in NewIds :
                    /\ chain' = StoreVersion(
                                    NewDeleteMarker(id, rec.newDeleteMarker))
                    /\ nextSeq' = SeqAfter(id)
                    /\ everIds' = everIds \cup {id}
                    /\ req' = [req EXCEPT ![r] =
                                  finalCallback([rec EXCEPT !.result = id], "none")]
           \/ /\ \E err \in StorageErrors :
                    req' = [req EXCEPT ![r] = finalCallback(rec, err)]
              /\ IF rec.delOptions.deleteData
                 THEN \E id \in NewIds :
                         /\ chain' = StoreVersion(NewDeleteMarker(id, TRUE))
                         /\ nextSeq' = SeqAfter(id)
                         /\ everIds' = everIds \cup {id}
                 ELSE UNCHANGED <<chain, nextSeq, everIds>>
    /\ UNCHANGED <<versioning, origin, lastRead>>

\* Mutant: when the version to delete is gone, the handler reads the metadata
\* again and retries instead of answering with the conflict.
deleteOperation_retryOnConflict(r) ==
    /\ req[r].pc = "deleteOperation"
    /\ LET rec == deleteDispatch(req[r])
       IN  \/ /\ rec.delOptions.deleteData
              /\ DeleteTarget(rec) \in ChainIds
              /\ chain' = RemoveVersion(DeleteTarget(rec))
              /\ req' = [req EXCEPT ![r] = finalCallback(rec, "none")]
              /\ UNCHANGED <<nextSeq, everIds>>
           \/ /\ ~rec.delOptions.deleteData
              /\ \E id \in NewIds :
                    /\ chain' = StoreVersion(
                                    NewDeleteMarker(id, rec.newDeleteMarker))
                    /\ nextSeq' = SeqAfter(id)
                    /\ everIds' = everIds \cup {id}
                    /\ req' = [req EXCEPT ![r] =
                                  finalCallback([rec EXCEPT !.result = id], "none")]
           \/ /\ \E err \in StorageErrors :
                    req' = [req EXCEPT ![r] =
                               IF rec.delOptions.deleteData
                                  /\ DeleteTarget(rec) \notin ChainIds
                               THEN [rec EXCEPT !.pc = "validateBucketAndObj"]
                               ELSE finalCallback([rec EXCEPT !.returned = err], err)]
              /\ UNCHANGED <<chain, nextSeq, everIds>>
    /\ UNCHANGED <<versioning, origin, lastRead>>

\* deleteOperation: the mutating call and, on its return, the final callback.
deleteOperation(r) ==
    /\ req[r].pc = "deleteOperation"
    /\ LET rec == deleteDispatch(req[r])
       IN  \/ \* services.deleteObject removed the version
              /\ rec.delOptions.deleteData
              /\ DeleteTarget(rec) \in ChainIds
              /\ chain' = RemoveVersion(DeleteTarget(rec))
              /\ req' = [req EXCEPT ![r] = finalCallback(rec, "none")]
              /\ UNCHANGED <<nextSeq, everIds>>
           \/ \* createAndStoreObject stored a new delete marker
              /\ ~rec.delOptions.deleteData
              /\ \E id \in NewIds :
                    /\ chain' = StoreVersion(
                                    NewDeleteMarker(id, rec.newDeleteMarker))
                    /\ nextSeq' = SeqAfter(id)
                    /\ everIds' = everIds \cup {id}
                    /\ req' = [req EXCEPT ![r] =
                                  finalCallback([rec EXCEPT !.result = id], "none")]
           \/ \* the mutating call failed: a storage error, or the conflict
              \* of a snapshot whose version is gone
              /\ \E err \in StorageErrors :
                    req' = [req EXCEPT ![r] =
                               finalCallback([rec EXCEPT !.returned = err], err)]
              /\ UNCHANGED <<chain, nextSeq, everIds>>
    /\ UNCHANGED <<versioning, origin, lastRead>>

\* ---------------------------------------------------------------- PUT
\* putObject: a new ordinary version through the object-creation path.
putObject ==
    /\ IdsLeft > 0
    /\ \E id \in NewIds, size \in ContentLengths :
          /\ chain' = StoreVersion(Version(id, FALSE, size))
          /\ nextSeq' = SeqAfter(id)
          /\ everIds' = everIds \cup {id}
    /\ UNCHANGED <<versioning, origin, req, lastRead>>

\* ---------------------------------------------------------------- GET
\* The response of a GET: status, error code, echoed version id, length.
GetResponse(code, statusCode, versionId, contentLength) ==
    [code |-> code, statusCode |-> statusCode, versionId |-> versionId,
     contentLength |-> contentLength]

\* The GET handler's answer for a query in the current state.
objectGet(query) ==
    LET decoded == decodeVersionId(query)
        objMD == Lookup(decoded.versionId)
    IN  IF decoded.err # "none"
        THEN GetResponse(decoded.err, 400, Undefined, -1)
        ELSE IF objMD = NoObj
        THEN GetResponse("NoSuchKey", 404, Undefined, -1)
        ELSE IF objMD.isDeleteMarker
        THEN IF decoded.versionId # Undefined
             THEN GetResponse("MethodNotAllowed", 405, Undefined, -1)
             ELSE GetResponse("NoSuchKey", 404, Undefined, -1)
        ELSE GetResponse("none", 200, VersionIdHeader(objMD.id),
                         objMD.contentLength)

\* s3.getObject: a GET request answered.
getObject(query) ==
    /\ lastRead' = [op |-> "getObject", query |-> query,
                    code |-> objectGet(query).code,
                    statusCode |-> objectGet(query).statusCode,
                    description |-> "",
                    versionId |-> objectGet(query).versionId,
                    contentLength |-> objectGet(query).contentLength]
    /\ UNCHANGED <<versioning, origin, chain, nextSeq, everIds, req>>

\* An operation that must not be version-pinned runs the query guard.
guardedOperation(query) ==
    /\ lastRead' = [op |-> "checkQueryVersionId", query |-> query,
                    code |-> checkQueryVersionId(query).code,
                    statusCode |-> checkQueryVersionId(query).statusCode,
                    description |-> checkQueryVersionId(query).description,
                    versionId |-> Undefined, contentLength |-> -1]
    /\ UNCHANGED <<versioning, origin, chain, nextSeq, everIds, req>>

\* --------------------------------------------------------------- Next
\* A step of the DELETE pipeline of request r.
deleteStep(r) ==
    \/ \E public \in BOOLEAN, query \in RequestQueries :
          objectDelete(r, public, query)
    \/ validateBucketAndObj(r)
    \/ getVersioningInfo(r)
    \/ deleteOperation(r)

\* Concurrent DELETE requests and PUTs on the key.
Next ==
    \/ \E r \in Reqs : deleteStep(r)
    \/ putObject

Spec == Init /\ [][Next]_vars

\* The key when the DELETE requests begin: without any version, or holding
\* the one object a PUT stored. The requests carry no Origin header.
LiveInit ==
    /\ versioning \in {"none", "Enabled", "Suspended"}
    /\ origin = FALSE
    /\ req = [r \in Reqs |-> IdleReq]
    /\ lastRead = [op |-> "none", query |-> NoQuery, code |-> "none",
                   statusCode |-> 0, description |-> "",
                   versionId |-> Undefined, contentLength |-> -1]
    /\ \/ /\ chain = <<>>
          /\ nextSeq = 1
          /\ everIds = {}
       \/ \E size \in ContentLengths,
             id \in CASE versioning = "none" -> {NullStr}
                      [] versioning = "Enabled" -> {DecStr(1)}
                      [] OTHER -> {DecStr(1), NullStr} :
             /\ chain = <<Version(id, FALSE, size)>>
             /\ nextSeq = IF id = NullStr THEN 1 ELSE 2
             /\ everIds = {id}

\* Concurrent DELETE requests on the key.
LiveNext == \E r \in Reqs : deleteStep(r)

\* The DELETE requests when every collaborator call eventually returns: each
\* stage of async.waterfall whose call was issued gets its callback.
LiveSpec ==
    /\ LiveInit
    /\ [][LiveNext]_vars
    /\ \A r \in Reqs :
          /\ WF_vars(validateBucketAndObj(r))
          /\ WF_vars(getVersioningInfo(r))
          /\ WF_vars(deleteOperation(r))

\* The request that runs alone in the specification of the reads.
Single == "r1"

\* DELETEs one at a time and PUTs, observed by GETs and by the query guard.
ReadNext ==
    \/ deleteStep(Single)
    \/ putObject
    \/ \E query \in RequestQueries : getObject(query)
    \/ \E query \in GuardQueries : guardedOperation(query)

ReadSpec == Init /\ [][ReadNext]_vars

\* ------------------------------------------------------------- claims
\* The token a client holds for the version with internal id `id`.
TokenOf(id) == IF id = NullStr THEN NullStr ELSE hexEncode(id)

\* A GET answered with an error and no content.
GetFails(res, statusCode, code) ==
    /\ res.statusCode = statusCode
    /\ res.code = code
    /\ res.versionId = Undefined
    /\ res.contentLength = -1

\* Request r was answered with success after creating a delete marker.
CreatedMarker(r) ==
    /\ req[r].pc = "done"
    /\ req[r].err = "none"
    /\ req[r].calls = <<"metadataValidateBucketAndObj",
                        "preprocessingVersioningDelete", "createAndStoreObject">>

\* C1: on a versioning-Enabled bucket, in every reachable state, a GET whose
\* explicit version id is that of a delete marker of the chain (the head or a
\* superseded one) fails with 405 MethodNotAllowed and returns no content; in
\* particular the version id a marker-creating DELETE returned is refused so.
C1_GetMarkerByIdIs405 ==
    versioning = "Enabled" =>
        /\ \A i \in 1..Len(chain) :
              chain[i].isDeleteMarker =>
                  GetFails(objectGet(VidQuery(TokenOf(chain[i].id))),
                           405, "MethodNotAllowed")
        /\ CreatedMarker(Single) /\ req[Single].result \in ChainIds =>
              GetFails(objectGet(VidQuery(req[Single].resHeaders.versionId)),
                       405, "MethodNotAllowed")

\* C1 witness: a GET by the id of a superseded delete marker was answered 405.
C1_Witness ==
    /\ versioning = "Enabled"
    /\ Len(chain) >= 2
    /\ chain[2].isDeleteMarker
    /\ lastRead.op = "getObject"
    /\ lastRead.query = VidQuery(TokenOf(chain[2].id))
    /\ lastRead.statusCode = 405
    /\ lastRead.code = "MethodNotAllowed"

\* C2: whenever the current version of the key is a delete marker, a GET with
\* no version id fails with 404 NoSuchKey, both for a marker created over a
\* key that never existed and for one created over an object, while a GET of
\* the same marker by its explicit version id fails with 405.
C2_GetCurrentMarkerIs404 ==
    /\ (chain # <<>> /\ Head(chain).isDeleteMarker) =>
          /\ GetFails(objectGet(EmptyQuery), 404, "NoSuchKey")
          /\ GetFails(objectGet(VidQuery(TokenOf(Head(chain).id))),
                      405, "MethodNotAllowed")
    /\ (CreatedMarker(Single) /\ chain # <<>>
            /\ Head(chain).id = req[Single].result) =>
          /\ GetFails(objectGet(EmptyQuery), 404, "NoSuchKey")
          /\ objectGet(VidQuery(req[Single].resHeaders.versionId)).statusCode = 405

\* C2 witness: the marker hides an object and a GET without version id was
\* answered 404 NoSuchKey.
C2_Witness ==
    /\ Len(chain) >= 2
    /\ Head(chain).isDeleteMarker
    /\ ~chain[2].isDeleteMarker
    /\ CreatedMarker(Single)
    /\ req[Single].objMD = chain[2]
    /\ lastRead.op = "getObject"
    /\ lastRead.query = EmptyQuery
    /\ lastRead.statusCode = 404
    /\ lastRead.code = "NoSuchKey"

\* C5: every ordinary version still in the chain, one hidden by a later delete
\* marker included, is returned by a GET with its token as explicit version
\* id, and the echoed version id is the requested token (the token survives
\* decode then encode); so is the object that a successful DELETE without
\* version id found as the current version.
C5_GetVersionByIdEchoes ==
    /\ \A i \in 1..Len(chain) :
          ~chain[i].isDeleteMarker =>
              LET token == TokenOf(chain[i].id)
                  res == objectGet(VidQuery(token))
              IN  /\ res.statusCode = 200
                  /\ res.code = "none"
                  /\ res.versionId = token
                  /\ res.contentLength = chain[i].contentLength
                  /\ token # NullStr =>
                        /\ decodeVersionId(VidQuery(token)).err = "none"
                        /\ encode(decodeVersionId(VidQuery(token)).versionId)
                               = token
    /\ (/\ versioning # "none"
        /\ req[Single].pc = "done"
        /\ req[Single].err = "none"
        /\ req[Single].reqVersionId = Undefined
        /\ req[Single].objMD # NoObj
        /\ ~req[Single].objMD.isDeleteMarker) =>
          LET token == TokenOf(req[Single].objMD.id)
          IN  /\ objectGet(VidQuery(token)).statusCode = 200
              /\ objectGet(VidQuery(token)).versionId = token

\* C5 witness: a GET by the token of an object hidden by a delete marker was
\* answered 200 with that token echoed.
C5_Witness ==
    /\ Len(chain) >= 2
    /\ Head(chain).isDeleteMarker
    /\ ~chain[2].isDeleteMarker
    /\ chain[2].id # NullStr
    /\ lastRead.op = "getObject"
    /\ lastRead.query = VidQuery(TokenOf(chain[2].id))
    /\ lastRead.statusCode = 200
    /\ lastRead.versionId = lastRead.query.versionId

\* C7: the query guard answers InvalidArgument with the message "This
\* operation does not accept a version-id." for every query that has a
\* versionId key, the empty value included, and no error for every query
\* without the key, the absent query included.
C7_QueryGuard ==
    lastRead.op = "checkQueryVersionId" =>
        IF lastRead.query.present /\ lastRead.query.hasVersionId
        THEN /\ lastRead.code = "InvalidArgument"
             /\ lastRead.statusCode = 400
             /\ lastRead.description
                    = "This operation does not accept a version-id."
        ELSE lastRead.code = "none"

\* C7 witness: the guard refused a query whose versionId is the empty string.
C7_Witness ==
    /\ lastRead.op = "checkQueryVersionId"
    /\ lastRead.query = VidQuery(<<>>)
    /\ lastRead.code = "InvalidArgument"

\* -------------------------------------------------- claims on DELETE
\* Request r is answered in this step.
Answers(r) == req'[r] # req[r] /\ req'[r].pc = "done"

\* Request r's mutating call returns in this step.
Mutates(r) == req[r].pc = "deleteOperation" /\ req'[r].pc = "done"

\* Request r's object-creation call stored a marker in this step.
MarkerCreated(r) ==
    Mutates(r) /\ req'[r].err = "none" /\ req'[r].newDeleteMarker

\* c2 is c1 with the version v as new head.
Appended(c1, c2, v) == c2 = <<v>> \o c1

\* c2 is c1 without exactly one of its versions.
OneRemoved(c1, c2) ==
    \E i \in 1..Len(c1) :
        c2 = SubSeq(c1, 1, i - 1) \o SubSeq(c1, i + 1, Len(c1))

\* C3: a DELETE without version id on a key without object metadata, on a
\* bucket with a versioning configuration, is not refused: it takes the
\* marker-creation path and, unless a collaborator fails, ends in success with
\* a new delete marker as head of the chain, x-amz-delete-marker = true and
\* the new marker's x-amz-version-id.
C3_DeleteOfAbsentKeyCreatesMarker ==
    [][\A r \in Reqs :
          /\ (/\ req'[r].pc = "deleteOperation"
              /\ req'[r].objMD = NoObj) => ~req'[r].delOptions.deleteData
          /\ (/\ Answers(r)
              /\ versioning # "none"
              /\ ~req'[r].public
              /\ ~req'[r].query.hasVersionId
              /\ req'[r].objMD = NoObj) =>
                \/ /\ req'[r].err \in ValidateErrors \cup StorageErrors
                   /\ chain' = chain
                \/ /\ req'[r].err = "none"
                   /\ req'[r].newDeleteMarker
                   /\ req'[r].result \notin ChainIds
                   /\ Appended(chain, chain', Version(req'[r].result, TRUE, 0))
                   /\ req'[r].resHeaders =
                          Headers(collectCorsHeaders(origin),
                                  TokenOf(req'[r].result), TRUE)]_vars

\* C3 witness: on an Enabled bucket the DELETE of a key that never existed
\* was answered with the new marker, now the whole chain.
C3_Witness ==
    \E r \in Reqs :
        /\ versioning = "Enabled"
        /\ CreatedMarker(r)
        /\ req[r].objMD = NoObj
        /\ req[r].resHeaders.deleteMarker
        /\ req[r].resHeaders.versionId = TokenOf(req[r].result)
        /\ chain = <<Version(req[r].result, TRUE, 0)>>

\* C4: a DELETE naming a version id for which the lookup finds no object, on
\* a bucket with a versioning configuration, ends in success (null error,
\* never the skip sentinel) with the CORS-derived headers only, after the
\* metadata lookup as its only collaborator call, with the chain unchanged and
\* no metric emitted.
C4_DeleteOfAbsentVersionSkips ==
    [][\A r \in Reqs :
          /\ req'[r].err # "skip"
          /\ (/\ req[r].pc = "validateBucketAndObj"
              /\ req'[r] # req[r]
              /\ versioning # "none"
              /\ req[r].reqVersionId # Undefined
              /\ Lookup(req[r].reqVersionId) = NoObj) =>
                /\ req'[r].pc = "done"
                /\ chain' = chain
                /\ req'[r].calls = <<"metadataValidateBucketAndObj">>
                /\ req'[r].metrics = <<>>
                /\ req'[r].cbCount = 1
                /\ \/ req'[r].err \in ValidateErrors
                   \/ /\ req'[r].err = "none"
                      /\ req'[r].resHeaders =
                             Headers(collectCorsHeaders(origin), Undefined, FALSE)]_vars

\* C4 witness: a DELETE of a version id absent from a non-empty chain was
\* answered with success, CORS headers only and no metric.
C4_Witness ==
    \E r \in Reqs :
        /\ versioning = "Enabled"
        /\ origin
        /\ chain # <<>>
        /\ req[r].pc = "done"
        /\ req[r].err = "none"
        /\ req[r].reqVersionId # Undefined
        /\ req[r].reqVersionId \notin ChainIds
        /\ req[r].calls = <<"metadataValidateBucketAndObj">>
        /\ req[r].metrics = <<>>
        /\ req[r].resHeaders =
               Headers({"access-control-allow-origin"}, Undefined, FALSE)

\* The ids of the chain c are pairwise distinct.
DistinctIds(c) ==
    \A i, j \in 1..Len(c) : c[i].id = c[j].id => i = j

\* Two requests answered after creating a marker hold different tokens.
DistinctMarkerTokens ==
    \A r1, r2 \in Reqs :
        (r1 # r2 /\ CreatedMarker(r1) /\ CreatedMarker(r2)) =>
            req[r1].resHeaders.versionId # req[r2].resHeaders.versionId

\* C6 as stated: every delete marker a DELETE creates gets an id that no
\* version that is or ever was in the chain had, and the ids of a chain are
\* pairwise distinct in every reachable state.
C6_Original ==
    [][/\ DistinctIds(chain')
       /\ \A r \in Reqs :
             MarkerCreated(r) =>
                 /\ req'[r].result \notin everIds
                 /\ req'[r].result \notin ChainIds]_vars

\* C6 as amended: every delete marker a DELETE creates gets, unless it is
\* the 'null' sentinel, an id that no version that is or ever was in the chain
\* had; on an Enabled bucket it is never the sentinel, so that two
\* marker-creating DELETEs there return different x-amz-version-id tokens; the
\* ids of a chain are pairwise distinct in every reachable state.
C6_FreshMarkerIds ==
    [][/\ DistinctIds(chain')
       /\ versioning = "Enabled" => DistinctMarkerTokens'
       /\ \A r \in Reqs :
             MarkerCreated(r) =>
                 /\ req'[r].result # NullStr =>
                       req'[r].result \notin everIds \cup ChainIds
                 /\ versioning = "Enabled" =>
                       /\ req'[r].result # NullStr
                       /\ req'[r].result \notin everIds
                       /\ req'[r].resHeaders.versionId = TokenOf(req'[r].result)
                       /\ \A id \in everIds :
                             TokenOf(id) # req'[r].resHeaders.versionId]_vars

\* C6 witness: on an Enabled bucket two DELETEs that raced on the empty chain
\* were both answered, with the two markers stacked and two different tokens.
C6_Witness ==
    /\ versioning = "Enabled"
    /\ \E r1, r2 \in Reqs :
          /\ r1 # r2
          /\ CreatedMarker(r1)
          /\ CreatedMarker(r2)
          /\ req[r1].objMD = NoObj
          /\ req[r2].objMD = NoObj
          /\ req[r1].resHeaders.versionId # req[r2].resHeaders.versionId
          /\ Len(chain) = 2
          /\ chain[1].id = req[r2].result
          /\ chain[2].id = req[r1].result

\* C8: a DELETE answered with an error has left the chain as it was; a DELETE
\* changes the chain only in the step of its mutating call, and then by one
\* whole version appended or one whole version removed, with a success
\* answer.
C8_ErrorLeavesChain ==
    [][\A r \in Reqs :
          req'[r] # req[r] =>
              /\ req'[r].pc # "done" => chain' = chain
              /\ (req'[r].pc = "done" /\ req'[r].err # "none") => chain' = chain
              /\ chain' # chain =>
                    /\ Mutates(r)
                    /\ req'[r].err = "none"
                    /\ \/ /\ req'[r].newDeleteMarker
                          /\ Appended(chain, chain', Head(chain'))
                       \/ /\ ~req'[r].newDeleteMarker
                          /\ OneRemoved(chain, chain')]_vars

\* C8 witness: a physical delete failed in the storage layer; the request was
\* answered with the error and the version it named is still in the chain.
C8_Witness ==
    \E r \in Reqs :
        /\ req[r].pc = "done"
        /\ req[r].err = "InternalError"
        /\ req[r].calls = <<"metadataValidateBucketAndObj",
                            "preprocessingVersioningDelete", "deleteObject">>
        /\ req[r].reqVersionId # Undefined
        /\ req[r].objMD.id \in ChainIds

\* C9: with versioning Enabled or Suspended, a version leaves the chain only
\* in the mutating step of a DELETE whose requested version id is that
\* version's id; no other DELETE, and no DELETE without version id, removes
\* or alters it.
C9_RemovedOnlyByOwnId ==
    [][versioning # "none" =>
          \A i \in 1..Len(chain) :
              (\A j \in 1..Len(chain') : chain'[j] # chain[i]) =>
                  \E r \in Reqs :
                      /\ Mutates(r)
                      /\ req'[r].err = "none"
                      /\ req[r].reqVersionId = chain[i].id]_vars

\* C9 witness: a delete marker under a later version was removed by a DELETE
\* that named its id, while a DELETE without version id stacked a marker.
C9_Witness ==
    \E r1, r2 \in Reqs :
        /\ versioning # "none"
        /\ req[r1].pc = "done"
        /\ req[r1].err = "none"
        /\ req[r1].removeDeleteMarker
        /\ req[r1].reqVersionId \in everIds \ ChainIds
        /\ CreatedMarker(r2)
        /\ req[r2].result \in ChainIds

\* C10: with versioning Enabled or Suspended, a successful DELETE without
\* version id leaves every version of the chain as it was and puts exactly
\* one new delete marker without content in front of them, whatever the head
\* was before: an object, a delete marker, or none.
C10_DeleteAppendsMarker ==
    [][\A r \in Reqs :
          (/\ Mutates(r)
           /\ req'[r].err = "none"
           /\ versioning # "none"
           /\ req[r].reqVersionId = Undefined) =>
              /\ Len(chain') = Len(chain) + 1
              /\ Tail(chain') = chain
              /\ Head(chain').isDeleteMarker
              /\ Head(chain').contentLength = 0
              /\ Head(chain').id = req'[r].result
              /\ Head(chain').id \notin ChainIds]_vars

\* C10 witness: a DELETE without version id whose current version was itself
\* a delete marker stacked a second marker on it.
C10_Witness ==
    \E r \in Reqs :
        /\ CreatedMarker(r)
        /\ Len(chain) >= 2
        /\ chain[1].id = req[r].result
        /\ chain[1].isDeleteMarker
        /\ chain[1].contentLength = 0
        /\ chain[2].isDeleteMarker
        /\ req[r].objMD = chain[2]

\* C11: on a bucket without versioning configuration, a DELETE whose lookup
\* finds no object metadata ends in an error answer with NoSuchKey, with or
\* without a version id in the request, with the chain unchanged and no
\* metric emitted; a DELETE whose lookup finds the object is given
\* deleteData = true and, when its call succeeds, has physically removed it.
C11_NoVersioningNoSuchKey ==
    [][\A r \in Reqs :
          versioning = "none" =>
              /\ (/\ req[r].pc = "validateBucketAndObj"
                  /\ req'[r] # req[r]
                  /\ Lookup(req[r].reqVersionId) = NoObj) =>
                    /\ req'[r].pc = "done"
                    /\ req'[r].err \in {"NoSuchKey"} \cup ValidateErrors
                    /\ req'[r].calls = <<"metadataValidateBucketAndObj">>
                    /\ req'[r].metrics = <<>>
                    /\ req'[r].cbCount = 1
                    /\ chain' = chain
              /\ req'[r].pc = "deleteOperation" =>
                    /\ req'[r].objMD # NoObj
                    /\ req'[r].delOptions.deleteData
              /\ (Mutates(r) /\ req'[r].err = "none") =>
                    /\ ~req'[r].newDeleteMarker
                    /\ req'[r].calls[3] = "deleteObject"
                    /\ OneRemoved(chain, chain')
                    /\ req[r].objMD.id \notin {chain'[i].id : i \in 1..Len(chain')}]_vars

\* C11 witness: on an unversioned bucket that holds the object, a DELETE
\* naming a version id that matches nothing was answered NoSuchKey.
C11_Witness ==
    \E r \in Reqs :
        /\ versioning = "none"
        /\ chain # <<>>
        /\ req[r].pc = "done"
        /\ req[r].err = "NoSuchKey"
        /\ req[r].reqVersionId # Undefined
        /\ req[r].metrics = <<>>
        /\ req[r].calls = <<"metadataValidateBucketAndObj">>

\* The version of the chain c that carries the id.
VersionOf(c, id) == c[CHOOSE i \in 1..Len(c) : c[i].id = id]

\* Request r's step is a successful physical delete: the mutating call was
\* services.deleteObject and the answer carries no error.
PhysicallyDeleted(r) ==
    /\ Mutates(r)
    /\ req'[r].err = "none"
    /\ req'[r].delOptions.deleteData

C13_VersionIdEchoedIffRequested ==
    [][\A r \in Reqs :
          PhysicallyDeleted(r) =>
              LET hdr == req'[r].resHeaders.versionId
                  vid == decodeVersionId(req'[r].query).versionId
              IN  /\ req'[r].reqVersionId = vid
                  /\ (hdr # Undefined) = (vid # Undefined)
                  /\ vid = NullStr => hdr = NullStr
                  /\ hdr # encode(NullStr)
                  /\ vid \notin {Undefined, NullStr} =>
                        /\ hdr = encode(vid)
                        /\ decodeVersionId(VidQuery(hdr)).versionId = vid]_vars

\* C13 witness: a DELETE naming ?versionId=null physically removed the
\* 'null' version and was answered with x-amz-version-id: null.
C13_Witness ==
    \E r \in Reqs :
        /\ req[r].pc = "done"
        /\ req[r].err = "none"
        /\ Len(req[r].calls) = 3
        /\ req[r].calls[3] = "deleteObject"
        /\ req[r].query = VidQuery(NullStr)
        /\ req[r].resHeaders.versionId = NullStr

\* C14: every successful marker creation is answered with
\* x-amz-delete-marker = true and with x-amz-version-id set to the id of the
\* marker just stored at the head of the chain: the literal 'null' for the
\* sentinel, its encoding otherwise; no such answer lacks either header.
C14_MarkerCreationHeaders ==
    [][\A r \in Reqs :
          MarkerCreated(r) =>
              LET hdr == req'[r].resHeaders
                  id == Head(chain').id
              IN  /\ chain' # chain
                  /\ Head(chain').isDeleteMarker
                  /\ req'[r].result = id
                  /\ hdr.deleteMarker
                  /\ hdr.versionId # Undefined
                  /\ hdr.versionId # encode(NullStr)
                  /\ hdr.versionId = IF id = NullStr THEN NullStr ELSE encode(id)
                  /\ hdr.cors = collectCorsHeaders(origin)]_vars

\* C14 witness: on a Suspended bucket a DELETE stored a marker with the
\* 'null' sentinel and was answered with both headers, the id literally.
C14_Witness ==
    \E r \in Reqs :
        /\ CreatedMarker(r)
        /\ req[r].result = NullStr
        /\ req[r].resHeaders.deleteMarker
        /\ req[r].resHeaders.versionId = NullStr
        /\ chain # <<>>
        /\ Head(chain) = Version(NullStr, TRUE, 0)

\* C15: a DELETE emits at most one metric, and only in the step in which its
\* mutating call succeeded: one "putObject" metric with zero bytes when a
\* delete marker was stored, one "deleteObject" metric whose byte length is
\* the content-length of the metadata the request read when a version or
\* marker was removed; a skip, an error answer and every step before the
\* answer emit none.
C15_OneMetricAfterMutation ==
    [][\A r \in Reqs :
          req'[r] # req[r] =>
              /\ Len(req'[r].metrics) <= 1
              /\ req'[r].metrics =
                    IF Mutates(r) /\ req'[r].err = "none"
                    THEN IF req'[r].newDeleteMarker
                         THEN <<Metric("putObject", 0)>>
                         ELSE <<Metric("deleteObject",
                                       req[r].objMD.contentLength)>>
                    ELSE <<>>
              /\ (req'[r].metrics # <<>>) = (chain' # chain)
              /\ req'[r].metrics # <<>> =>
                    IF req'[r].metrics[1].name = "putObject"
                    THEN Len(chain') = Len(chain) + 1
                    ELSE Len(chain') = Len(chain) - 1]_vars

\* C15 witness: a physical delete of an object of 3 bytes was metered as one
\* "deleteObject" of 3 bytes, while another DELETE that was skipped emitted
\* nothing.
C15_Witness ==
    \E r1, r2 \in Reqs :
        /\ req[r1].pc = "done"
        /\ req[r1].err = "none"
        /\ req[r1].metrics = <<Metric("deleteObject", 3)>>
        /\ req[r1].objMD.contentLength = 3
        /\ req[r2].pc = "done"
        /\ req[r2].err = "none"
        /\ req[r2].calls = <<"metadataValidateBucketAndObj">>
        /\ req[r2].metrics = <<>>

\* C16: an error returned by a collaborator (metadata lookup, delete
\* preprocessing, storage mutation) is the error the caller gets, unchanged,
\* in the very step in which it was returned: no later stage runs, nothing
\* is stored, removed or metered. The only value the handler intercepts is
\* its own skip sentinel, answered as a success and never shown.
C16_ErrorsPropagateUnchanged ==
    [][\A r \in Reqs :
          /\ req'[r].err # "skip"
          /\ req'[r].returned # "none" => req'[r].pc = "done"
          /\ (req'[r] # req[r] /\ req'[r].returned # "none") =>
                /\ req'[r].err = req'[r].returned
                /\ req'[r].cbCount = 1
                /\ req'[r].calls = req[r].calls \o <<req'[r].calls[Len(req'[r].calls)]>>
                /\ req'[r].metrics = <<>>
                /\ req'[r].resHeaders =
                       Headers(collectCorsHeaders(origin), Undefined, FALSE)
                /\ chain' = chain
          /\ (Answers(r) /\ req'[r].err = "none" /\ ~Mutates(r)) =>
                /\ req[r].pc = "validateBucketAndObj"
                /\ req[r].reqVersionId # Undefined
                /\ versioning # "none"
                /\ Lookup(req[r].reqVersionId) = NoObj
          /\ (Answers(r) /\ req'[r].err \notin {"none", req'[r].returned}) =>
                \/ /\ req[r].pc = "validateBucketAndObj"
                   /\ req'[r].err = "NoSuchKey"
                \/ /\ req[r].pc \in {"idle", "done"}
                   /\ req'[r].err \in {"AccessDenied", DecodeError}]_vars

\* C16 witness: the metadata lookup refused an authenticated request with
\* AccessDenied; the request was answered with that error after that one
\* call.
C16_Witness ==
    \E r \in Reqs :
        /\ req[r].pc = "done"
        /\ ~req[r].public
        /\ req[r].returned = "AccessDenied"
        /\ req[r].err = "AccessDenied"
        /\ req[r].calls = <<"metadataValidateBucketAndObj">>
        /\ req[r].cbCount = 1

\* The collaborator calls of one pass through the pipeline, in order.
Pipeline(mutation) ==
    <<"metadataValidateBucketAndObj", "preprocessingVersioningDelete", mutation>>

\* C17: under every interleaving of the DELETE requests (and PUTs) on the
\* key, a request reads the metadata once and issues at most one mutating
\* call, either the physical delete or the object creation: its calls are a
\* prefix of lookup, preprocessing, one mutation. The metadata it read stays
\* what it decides from, and the step of its mutating call is its answer;
\* when the version it was to remove is gone by then, the answer is the
\* error the call returned, with the chain as it was and nothing read again.
C17_OneReadOneMutation ==
    [][\A r \in Reqs :
          /\ \E m \in {"deleteObject", "createAndStoreObject"} :
                req'[r].calls = SubSeq(Pipeline(m), 1, Len(req'[r].calls))
          /\ (req'[r] # req[r] /\ req[r].pc = "getVersioningInfo") =>
                req'[r].objMD = req[r].objMD
          /\ (req'[r] # req[r] /\ req[r].pc = "deleteOperation") =>
                /\ req'[r].pc = "done"
                /\ req'[r].objMD = req[r].objMD
                /\ req'[r].cbCount = 1
                /\ Len(req'[r].calls) = 3
                /\ req'[r].calls[3] = IF req[r].delOptions.deleteData
                                      THEN "deleteObject"
                                      ELSE "createAndStoreObject"
                /\ (/\ req[r].delOptions.deleteData
                    /\ DeleteTarget(req[r]) \notin ChainIds) =>
                      /\ req'[r].err \in StorageErrors
                      /\ req'[r].err = req'[r].returned
                      /\ req'[r].metrics = <<>>
                      /\ chain' = chain]_vars

\* C17 witness: two DELETEs named the same version; one removed it, the call
\* of the other failed and it was answered with that error after its one
\* lookup and one mutating call.
C17_Witness ==
    \E r1, r2 \in Reqs :
        /\ r1 # r2
        /\ req[r1].pc = "done"
        /\ req[r1].err = "none"
        /\ req[r1].calls = Pipeline("deleteObject")
        /\ req[r2].pc = "done"
        /\ req[r2].err \in StorageErrors
        /\ req[r2].returned = req[r2].err
        /\ req[r2].calls = Pipeline("deleteObject")
        /\ req[r2].objMD = req[r1].objMD
        /\ req[r2].objMD.id \notin ChainIds

\* C18: a request of the public (unauthenticated) user is answered
\* AccessDenied, and one whose version id does not decode is answered with
\* the decode error, both in the handler's first step: no collaborator is
\* called, the chain is as it was, no metric is emitted, no header set. The
\* requester is tested first: a public request with a malformed version id
\* gets AccessDenied.
C18_RefusedBeforeLookup ==
    [][\A r \in Reqs :
          /\ (req'[r].public \/ decodeVersionId(req'[r].query).err # "none") =>
                /\ req'[r].pc = "done"
                /\ req'[r].calls = <<>>
          /\ (req[r].pc \in {"idle", "done"} /\ req'[r] # req[r]) =>
                LET decoded == decodeVersionId(req'[r].query)
                IN  /\ chain' = chain
                    /\ req'[r].calls = <<>>
                    /\ req'[r].metrics = <<>>
                    /\ req'[r].returned = "none"
                    /\ req'[r].public =>
                          /\ req'[r].pc = "done"
                          /\ req'[r].err = "AccessDenied"
                    /\ (~req'[r].public /\ decoded.err # "none") =>
                          /\ req'[r].pc = "done"
                          /\ req'[r].err = DecodeError
                          /\ req'[r].err = decoded.err
                    /\ req'[r].pc = "done" =>
                          /\ req'[r].cbCount = 1
                          /\ req'[r].resHeaders = Headers({}, Undefined, FALSE)
                    /\ (~req'[r].public /\ decoded.err = "none") =>
                          /\ req'[r].pc = "validateBucketAndObj"
                          /\ req'[r].reqVersionId = decoded.versionId]_vars

\* C18 witness: a public request with a malformed version id was answered
\* AccessDenied without any call, on a key that holds a version.
C18_Witness ==
    \E r \in Reqs :
        /\ req[r].pc = "done"
        /\ req[r].public
        /\ decodeVersionId(req[r].query).err # "none"
        /\ req[r].err = "AccessDenied"
        /\ req[r].calls = <<>>
        /\ req[r].metrics = <<>>
        /\ chain # <<>>

\* C19: provided every collaborator call eventually returns, every DELETE
\* that was started is eventually answered, and at every moment a request
\* has been answered exactly once when it is in its terminal state (success
\* or error) and not at all before: no request stays in a stage for ever and
\* none is answered twice.
C19_EveryDeleteAnswersOnce ==
    /\ [](\A r \in Reqs :
            req[r].cbCount = IF req[r].pc = "done" THEN 1 ELSE 0)
    /\ \A r \in Reqs : (r \in InFlight) ~> (req[r].pc = "done")

\* C19 witness: a DELETE went through all three stages and was answered, once.
C19_Witness ==
    \E r \in Reqs :
        /\ req[r].pc = "done"
        /\ Len(req[r].calls) = 3
        /\ req[r].cbCount = 1

====
